---- MODULE Spec2Model ----
(***************************************************************************)
(* A model of the v-math library (src/index.ts and its compiled bundle     *)
(* src/unnamed/part_000): the Vector and Quaternion value types, their     *)
(* operations, and the objects a caller holds while calling them.          *)
(*                                                                         *)
(* Numbers.  The library computes on JavaScript numbers.  The model keeps  *)
(* them exact: a finite number is a finite sum of rational multiples of    *)
(* square roots of squarefree integers, written as a set of terms          *)
(* <<rad, p, q>> (the value (p/q)*sqrt(rad)), one term per radicand, p # 0,*)
(* q > 0, gcd(p,q) = 1.  Zero is the empty set and a rational has the one  *)
(* radicand 1.  Math.sqrt is exact on every non-negative rational, so the  *)
(* model is exact on rational inputs.  The three non-finite numbers are    *)
(* the one-term sets of radicand 0: NaN, +Infinity and -Infinity.          *)
(* Rounding, the overflow and underflow of a double's exponent, and signed *)
(* zero are not modelled.                                                  *)
(***************************************************************************)
EXTENDS Integers, Sequences, FiniteSets, TLC

VARIABLES heap, call

vars == <<heap, call>>

-----------------------------------------------------------------------------
(* Rationals <<p, q>> in lowest terms, q > 0. *)

Abs(n) == IF n < 0 THEN -n ELSE n

Sgn(n) == IF n < 0 THEN -1 ELSE IF n > 0 THEN 1 ELSE 0

RECURSIVE GCD(_, _)
GCD(a, b) == IF b = 0 THEN a ELSE GCD(b, a % b)

(* p/q divided through by g > 0, the sign carried by p. *)
Reduce(p, q, g) == <<(Sgn(q) * p) \div g, Abs(q) \div g>>

RNorm(p, q) == IF p = 0 THEN <<0, 1>> ELSE Reduce(p, q, GCD(Abs(p), Abs(q)))

(* r + s over the least common denominator, g the gcd of the two. *)
RAddBy(r, s, g) == RNorm(r[1] * (s[2] \div g) + s[1] * (r[2] \div g), (r[2] \div g) * s[2])

RAdd(r, s) == RAddBy(r, s, GCD(r[2], s[2]))

(* n = k*k*m with m squarefree: <<k, m>>, for n > 0; k counts up from 2. *)
RECURSIVE SquarePart(_, _, _)
SquarePart(n, k, acc) ==
    IF k * k > n THEN <<acc, n>>
    ELSE IF n % (k * k) = 0 THEN SquarePart(n \div (k * k), k, acc * k)
    ELSE SquarePart(n, k + 1, acc)

-----------------------------------------------------------------------------
(* Numbers. *)

Zero == {}

One == {<<1, 1, 1>>}

MinusOne == {<<1, -1, 1>>}

Two == {<<1, 2, 1>>}

MinusTwo == {<<1, -2, 1>>}

(* The term c*sqrt(r) of the rational c = <<p, q>>. *)
Term(r, c) == <<r, c[1], c[2]>>

(* A set of terms without its zero terms. *)
NonZero(T) == {t \in T : t[2] # 0}

Rat(p, q) == NonZero({Term(1, RNorm(p, q))})

Lit(n) == NonZero({<<1, n, 1>>})

NaN == {<<0, 0, 0>>}

PosInf == {<<0, 1, 0>>}

NegInf == {<<0, -1, 0>>}

Inf(s) == {<<0, s, 0>>}

IsFinite(x) == \A t \in x : t[1] # 0

IsRational(x) == \A t \in x : t[1] = 1

Rads(x) == {t[1] : t \in x}

(* The coefficient of sqrt(r) in x. *)
CoefOf(t) == <<t[2], t[3]>>

Coef(x, r) == IF r \in Rads(x) THEN CoefOf(CHOOSE u \in x : u[1] = r) ELSE <<0, 1>>

NNeg(x) == {<<t[1], -t[2], t[3]>> : t \in x}

(* The sum of two finite numbers: radicand by radicand. *)
FinAdd(x, y) ==
    NonZero({Term(r, RAdd(Coef(x, r), Coef(y, r))) : r \in Rads(x) \cup Rads(y)})

(* sqrt(n)*sqrt(m) = g*sqrt((n/g)*(m/g)) with g = gcd(n, m), n and m squarefree. *)
TermMulBy(t, u, g) ==
    Term((t[1] \div g) * (u[1] \div g), RNorm(t[2] * u[2] * g, t[3] * u[3]))

TermMul(t, u) == TermMulBy(t, u, GCD(t[1], u[1]))

(* The sum of the coefficients of the terms a set of <<pair, term>> holds. *)
RECURSIVE SumCoef(_, _)
SumCoefNext(S, e, acc) == SumCoef(S \ {e}, RAdd(acc, <<e[2][2], e[2][3]>>))

SumCoef(S, acc) == IF S = {} THEN acc ELSE SumCoefNext(S, CHOOSE e \in S : TRUE, acc)

(* The terms of S, each <<pair, term>>, added up radicand by radicand. *)
Collect(S) ==
    NonZero({Term(r, SumCoef({e \in S : e[2][1] = r}, <<0, 1>>)) : r \in {e[2][1] : e \in S}})

FinMul(x, y) == Collect({<<pr, TermMul(pr[1], pr[2])>> : pr \in x \X y})

(* The sign of a number: of t + rest, the sign of t when rest has it too,
   and otherwise the sign of the larger of |t| and |rest|, by their squares.
   Of an infinity its sign, of NaN 0. *)
RECURSIVE NSign(_)
SignOfSum(t, rest, sr) ==
    IF sr = 0 \/ sr = Sgn(t[2]) THEN Sgn(t[2])
    ELSE Sgn(t[2]) * NSign(FinAdd(Rat(t[2] * t[2] * t[1], t[3] * t[3]),
                                  NNeg(FinMul(rest, rest))))

SignOfTerm(x, t) == SignOfSum(t, x \ {t}, NSign(x \ {t}))

NSign(x) == IF x = {} THEN 0 ELSE SignOfTerm(x, CHOOSE u \in x : TRUE)

RECURSIVE SignProduct(_)
SignProduct(xs) == IF xs = <<>> THEN 1 ELSE NSign(Head(xs)) * SignProduct(Tail(xs))

NAdd(x, y) ==
    IF IsFinite(x) /\ IsFinite(y) THEN FinAdd(x, y)
    ELSE IF x = NaN \/ y = NaN THEN NaN
    ELSE IF IsFinite(x) THEN y
    ELSE IF IsFinite(y) THEN x
    ELSE IF x = y THEN x ELSE NaN

NSub(x, y) == NAdd(x, NNeg(y))

NMul(x, y) ==
    IF IsFinite(x) /\ IsFinite(y) THEN FinMul(x, y)
    ELSE IF x = NaN \/ y = NaN THEN NaN
    ELSE Inf(SignProduct(<<x, y>>))

(* 1/y for a finite one-term y: 1/((p/q)*sqrt(n)) = (q/(p*n))*sqrt(n). *)
TermInv(t) == {Term(t[1], RNorm(t[3], t[2] * t[1]))}

(* x / y.  A finite divisor of the model has one term (a magnitude, a
   rational).  x/0 is NaN for x = 0 or NaN and an infinity otherwise. *)
NDiv(x, y) ==
    IF x = NaN \/ y = NaN THEN NaN
    ELSE IF IsFinite(x) /\ IsFinite(y) /\ y # {}
         THEN FinMul(x, TermInv(CHOOSE t \in y : Cardinality(y) = 1))
    ELSE IF ~IsFinite(y) THEN (IF IsFinite(x) THEN Zero ELSE NaN)
    ELSE Inf(SignProduct(IF y = {} THEN <<x>> ELSE <<x, y>>))

NLe(x, y) ==
    IF x = NaN \/ y = NaN THEN FALSE
    ELSE IF x = y \/ x = NegInf \/ y = PosInf THEN TRUE
    ELSE IF x = PosInf \/ y = NegInf THEN FALSE
    ELSE NSign(FinAdd(y, NNeg(x))) >= 0

(* Math.sqrt: NaN below zero; sqrt(p/q) = sqrt(p*q)/q, p*q = k*k*m. *)
SqrtBy(q, km) == {Term(km[2], RNorm(km[1], q))}

SqrtOfTerm(t) == IF t[2] < 0 THEN NaN ELSE SqrtBy(t[3], SquarePart(t[2] * t[3], 2, 1))

Math_sqrt(x) ==
    IF x = NaN \/ x = NegInf THEN NaN
    ELSE IF x = PosInf THEN PosInf
    ELSE IF x = {} THEN Zero
    ELSE SqrtOfTerm(CHOOSE u \in x : IsRational(x))

(* Math.max and Math.min of two numbers: NaN when either is NaN. *)
Math_max(x, y) == IF x = NaN \/ y = NaN THEN NaN ELSE IF NLe(x, y) THEN y ELSE x

Math_min(x, y) == IF x = NaN \/ y = NaN THEN NaN ELSE IF NLe(x, y) THEN x ELSE y

(* Math.pow(x, 2). *)
Math_pow2(x) == NMul(x, x)

-----------------------------------------------------------------------------
(* Angles.  An angle the caller passes is written by the cosine and sine of
   its half, [kind |-> "half"], so that Math.cos(angle / 2.0) and
   Math.sin(angle / 2.0) are exact; an angle Math.acos returns is written by
   its cosine, [kind |-> "acos"].  The angles 0, PI/2 and PI have the one
   ("half") form. *)

Angle(c, s) == [kind |-> "half", c |-> c, s |-> s]

AngleZero == Angle(One, Zero)

Math_PI == Angle(Zero, One)

HalfSqrt2 == Math_sqrt(Rat(1, 2))

Math_PI_2 == Angle(HalfSqrt2, HalfSqrt2)

Math_acos(x) ==
    IF x = One THEN AngleZero
    ELSE IF x = Zero THEN Math_PI_2
    ELSE IF x = MinusOne THEN Math_PI
    ELSE IF NLe(MinusOne, x) /\ NLe(x, One) THEN [kind |-> "acos", c |-> x, s |-> Zero]
    ELSE [kind |-> "acos", c |-> NaN, s |-> Zero]

Math_cos(t) ==
    IF t.kind = "acos" THEN t.c ELSE NSub(NMul(t.c, t.c), NMul(t.s, t.s))

(* Math.cos(angle / 2.0) and Math.sin(angle / 2.0). *)
Math_cos_half(t) ==
    IF t.kind = "half" THEN t.c ELSE Math_sqrt(NDiv(NAdd(One, t.c), Two))

Math_sin_half(t) ==
    IF t.kind = "half" THEN t.s ELSE Math_sqrt(NDiv(NSub(One, t.c), Two))

-----------------------------------------------------------------------------
(* A thrown Error, in place of a method's value. *)

Error == [class |-> "Error"]

(* z || 0, the default of a missing z: a z of 0 or NaN is falsy too. *)
OrZero(z) == IF z = NaN THEN Zero ELSE z

(* new Vector(x, y, z) and new Vector({x, y, z}). *)
Vector(x, y, z) == [class |-> "Vector", x |-> x, y |-> y, z |-> OrZero(z)]

(* new Quaternion(a, i, j, k). *)
Quaternion(a, i, j, k) == [class |-> "Quaternion", a |-> a, i |-> i, j |-> j, k |-> k]

(* A matrix: an Array of rows, each an Array of numbers. *)
Array(rows) == [class |-> "Array", rows |-> rows]

-----------------------------------------------------------------------------
(* class Quaternion, first: Vector's rotations use it. *)

Quaternion_add(this, q) ==
    Quaternion(NAdd(this.a, q.a), NAdd(this.i, q.i), NAdd(this.j, q.j), NAdd(this.k, q.k))

Quaternion_sub(this, q) ==
    Quaternion(NSub(this.a, q.a), NSub(this.i, q.i), NSub(this.j, q.j), NSub(this.k, q.k))

Quaternion_conjugate(this) ==
    Quaternion(this.a, NNeg(this.i), NNeg(this.j), NNeg(this.k))

Quaternion_mul(this, a) ==
    Quaternion(NMul(this.a, a), NMul(this.i, a), NMul(this.j, a), NMul(this.k, a))

(* A div that divides whatever the divisor. *)
Quaternion_div_unchecked(this, a) ==
    Quaternion(NDiv(this.a, a), NDiv(this.i, a), NDiv(this.j, a), NDiv(this.k, a))

Quaternion_div(this, a) ==
    IF a = Zero THEN Error
    ELSE Quaternion(NDiv(this.a, a), NDiv(this.i, a), NDiv(this.j, a), NDiv(this.k, a))

Quaternion_mag(this) ==
    Math_sqrt(NAdd(NAdd(NAdd(NMul(this.a, this.a), NMul(this.i, this.i)),
                        NMul(this.j, this.j)), NMul(this.k, this.k)))

Quaternion_normalize(this) == Quaternion_div(this, Quaternion_mag(this))

(* The product taken the other way round, q*this. *)
Quaternion_multiply_reversed(this, q) ==
    Quaternion(
        NSub(NSub(NSub(NMul(q.a, this.a), NMul(q.i, this.i)), NMul(q.j, this.j)), NMul(q.k, this.k)),
        NSub(NAdd(NAdd(NMul(q.a, this.i), NMul(q.i, this.a)), NMul(q.j, this.k)), NMul(q.k, this.j)),
        NAdd(NAdd(NSub(NMul(q.a, this.j), NMul(q.i, this.k)), NMul(q.j, this.a)), NMul(q.k, this.i)),
        NAdd(NSub(NAdd(NMul(q.a, this.k), NMul(q.i, this.j)), NMul(q.j, this.i)), NMul(q.k, this.a)))

Quaternion_quaternion_multiply(this, q) ==
    Quaternion(
        NSub(NSub(NSub(NMul(this.a, q.a), NMul(this.i, q.i)), NMul(this.j, q.j)), NMul(this.k, q.k)),
        NSub(NAdd(NAdd(NMul(this.a, q.i), NMul(this.i, q.a)), NMul(this.j, q.k)), NMul(this.k, q.j)),
        NAdd(NAdd(NSub(NMul(this.a, q.j), NMul(this.i, q.k)), NMul(this.j, q.a)), NMul(this.k, q.i)),
        NAdd(NSub(NAdd(NMul(this.a, q.k), NMul(this.i, q.j)), NMul(this.j, q.i)), NMul(this.k, q.a)))

Quaternion_q_mul(this, q) == Quaternion_quaternion_multiply(this, q)

(* A quaternion_rotate that multiplies the receiver by the argument. *)
Quaternion_rotate_reversed(qn, tn) ==
    IF qn = Error \/ tn = Error THEN Error ELSE Quaternion_quaternion_multiply(tn, qn)

(* qn.quaternion_multiply(tn) of quaternion_rotate, qn = q.normalize() and
   tn = this.normalize(); q.normalize() is evaluated, and throws, first. *)
Quaternion_rotate_normalized(qn, tn) ==
    IF qn = Error \/ tn = Error THEN Error ELSE Quaternion_quaternion_multiply(qn, tn)

Quaternion_quaternion_rotate(this, q) ==
    Quaternion_rotate_normalized(Quaternion_normalize(q), Quaternion_normalize(this))

Quaternion_q_rotate(this, q) == Quaternion_quaternion_rotate(this, q)

(* The transposed matrix, the rotation the other way. *)
Quaternion_get_transposed_matrix(this) ==
    LET a == this.a
        i == this.i
        j == this.j
        k == this.k
    IN  Array(
        << << NSub(NSub(NAdd(NMul(a, a), NMul(i, i)), NMul(j, j)), NMul(k, k)),
              NMul(Two, NAdd(NMul(i, j), NMul(a, k))),
              NMul(Two, NAdd(NMul(NNeg(a), j), NMul(i, k))) >>,
           << NMul(Two, NSub(NMul(i, j), NMul(a, k))),
              NSub(NAdd(NSub(NMul(a, a), NMul(i, i)), NMul(j, j)), NMul(k, k)),
              NMul(Two, NAdd(NMul(a, i), NMul(j, k))) >>,
           << NMul(Two, NAdd(NMul(a, j), NMul(i, k))),
              NMul(Two, NAdd(NMul(NNeg(a), i), NMul(j, k))),
              NAdd(NSub(NSub(NMul(a, a), NMul(i, i)), NMul(j, j)), NMul(k, k)) >> >>)

Quaternion_get_rotation_matrix(this) ==
    LET a == this.a
        i == this.i
        j == this.j
        k == this.k
        two == Two
    IN  Array(
        << << NSub(NSub(NAdd(NMul(a, a), NMul(i, i)), NMul(j, j)), NMul(k, k)),
              NMul(two, NSub(NMul(i, j), NMul(a, k))),
              NMul(two, NAdd(NMul(a, j), NMul(i, k))) >>,
           << NMul(two, NAdd(NMul(i, j), NMul(a, k))),
              NSub(NAdd(NSub(NMul(a, a), NMul(i, i)), NMul(j, j)), NMul(k, k)),
              NMul(two, NAdd(NMul(NNeg(a), i), NMul(j, k))) >>,
           << NMul(two, NAdd(NMul(NNeg(a), j), NMul(i, k))),
              NMul(two, NAdd(NMul(a, i), NMul(j, k))),
              NAdd(NSub(NSub(NMul(a, a), NMul(i, i)), NMul(j, j)), NMul(k, k)) >> >>)

Quaternion_copy(this) == Quaternion(this.a, this.i, this.j, this.k)

-----------------------------------------------------------------------------
(* class Vector. *)

Vector_add(this, v) == Vector(NAdd(this.x, v.x), NAdd(this.y, v.y), NAdd(this.z, v.z))

Vector_neg(this) == Vector(NNeg(this.x), NNeg(this.y), NNeg(this.z))

Vector_sub(this, v) == Vector_add(this, Vector_neg(v))

(* a is [typeof |-> "number", val |-> n] or [typeof |-> "object", val |-> v]. *)
Vector_mul(this, a) ==
    LET b == IF a.typeof = "number" THEN Vector(a.val, a.val, a.val) ELSE a.val
    IN  Vector(NMul(this.x, b.x), NMul(this.y, b.y), NMul(this.z, b.z))

Vector_mag(this) ==
    Math_sqrt(NAdd(NAdd(NMul(this.x, this.x), NMul(this.y, this.y)), NMul(this.z, this.z)))

(* A norm that divides by the magnitude whatever it is. *)
Vector_norm_unchecked(this, mag) ==
    Vector(NDiv(this.x, mag), NDiv(this.y, mag), NDiv(this.z, mag))

(* norm() after "const mag = this.mag()". *)
Vector_norm_by(this, mag) ==
    IF mag = Zero THEN Vector(Zero, Zero, Zero)
    ELSE Vector(NDiv(this.x, mag), NDiv(this.y, mag), NDiv(this.z, mag))

Vector_norm(this) == Vector_norm_by(this, Vector_mag(this))

Vector_cross(this, v) ==
    Vector(NSub(NMul(this.y, v.z), NMul(this.z, v.y)),
           NNeg(NSub(NMul(this.x, v.z), NMul(this.z, v.x))),
           NSub(NMul(this.x, v.y), NMul(this.y, v.x)))

Vector_dot(this, v) ==
    NAdd(NAdd(NMul(this.x, v.x), NMul(this.y, v.y)), NMul(this.z, v.z))

(* The sandwich product q * (0, this) * conjugate(q) of quaternion_rotate,
   q normalized. *)
Sandwich(this, q) ==
    Quaternion_q_mul(Quaternion_q_mul(q, Quaternion(Zero, this.x, this.y, this.z)),
                     Quaternion_conjugate(q))

(* new Vector(p.i, p.j, p.k). *)
Vector_of(p) == Vector(p.i, p.j, p.k)

(* quaternion_rotate after "q = q.normalize()". *)
Vector_rotate_normalized(this, qn) ==
    IF qn = Error THEN Error ELSE Vector_of(Sandwich(this, qn))

(* A rotation by q as it is given, not normalized. *)
Vector_rotate_unnormalized(this, q) == Vector_of(Sandwich(this, q))

Vector_quaternion_rotate(this, q) == Vector_rotate_normalized(this, Quaternion_normalize(q))

Vector_q_rotate(this, q) == Vector_quaternion_rotate(this, q)

(* M[r][3] || 0: a row without a 4th column adds no translation. *)
Col4(row) == IF Len(row) >= 4 THEN OrZero(row[4]) ELSE Zero

TransformRow(this, row) ==
    NAdd(NAdd(NAdd(NMul(this.x, row[1]), NMul(this.y, row[2])), NMul(this.z, row[3])), Col4(row))

Vector_transform(this, M) ==
    Vector(TransformRow(this, M.rows[1]), TransformRow(this, M.rows[2]),
           TransformRow(this, M.rows[3]))

(* The factory without its final normalize(). *)
Quaternion_from_axis_unnormalized(a, s, axis) ==
    Quaternion(a, NMul(axis.x, s), NMul(axis.y, s), NMul(axis.z, s))

(* from_axis_rotation after a, s and "axis = axis.norm()". *)
Quaternion_from_normalized_axis(a, s, axis) ==
    Quaternion_normalize(Quaternion(a, NMul(axis.x, s), NMul(axis.y, s), NMul(axis.z, s)))

Quaternion_from_axis_rotation(axis, angle) ==
    Quaternion_from_normalized_axis(Math_cos_half(angle), Math_sin_half(angle),
                                    Vector_norm(axis))

(* this.q_rotate(q), q the value of from_axis_rotation or its Error. *)
Vector_q_rotate_or_throw(this, q) == IF q = Error THEN Error ELSE Vector_q_rotate(this, q)

Vector_rotate_axis(this, axis, angle) ==
    Vector_q_rotate_or_throw(this, Quaternion_from_axis_rotation(axis, angle))

Vector_rotate_x(this, xAngle) == Vector_rotate_axis(this, Vector(One, Zero, Zero), xAngle)

Vector_rotate_y(this, yAngle) == Vector_rotate_axis(this, Vector(Zero, One, Zero), yAngle)

Vector_rotate_z(this, zAngle) == Vector_rotate_axis(this, Vector(Zero, Zero, One), zAngle)

(* An angle_between that divides by the denominator whatever it is. *)
Vector_angle_unchecked(this, v, denominator) ==
    Math_acos(Math_min(Math_max(NDiv(Vector_dot(this, v), denominator), MinusOne), One))

(* angle_between after "let denominator = this.mag() * v.mag()". *)
Vector_angle_by(this, v, denominator) ==
    IF denominator = Zero THEN AngleZero
    ELSE Math_acos(Math_min(Math_max(NDiv(Vector_dot(this, v), denominator), MinusOne), One))

Vector_angle_between(this, v) ==
    Vector_angle_by(this, v, NMul(Vector_mag(this), Vector_mag(v)))

Vector_project(this, v) ==
    Vector_mul(Vector_norm(v),
               [typeof |-> "number",
                val |-> NMul(Math_cos(Vector_angle_between(this, v)), Vector_mag(this))])

Vector_planar_project(this, origin, normal) ==
    Vector_add(this, Vector_project(Vector_sub(origin, this), normal))

(* project_2d after proj, and after the rotated y_axis or its Error. *)
Vector_project_2d_by(proj, y_axis, rot, mag) ==
    IF rot = Error THEN Error
    ELSE Vector(NMul(Math_cos(Vector_angle_between(proj, rot)), mag),
                NMul(Math_cos(Vector_angle_between(proj, y_axis)), mag), Zero)

Vector_project_2d_of(proj, normal, y_axis) ==
    Vector_project_2d_by(proj, y_axis, Vector_rotate_axis(y_axis, normal, Math_PI_2),
                         Vector_mag(proj))

Vector_project_2d(this, origin, normal, y_axis) ==
    Vector_project_2d_of(Vector_sub(Vector_planar_project(this, origin, normal), origin),
                         normal, y_axis)

(* The distance with the foot of the perpendicular taken at (...) / (-dist). *)
Vector_distance_unhalved(dist_a, dist_b, dist) ==
    Math_sqrt(Math_max(Zero,
        NSub(NMul(dist_a, dist_a),
             Math_pow2(NDiv(NSub(NSub(NMul(dist_b, dist_b), NMul(dist_a, dist_a)),
                                 NMul(dist, dist)),
                            NMul(MinusOne, dist))))))

(* distance_from_line after dist_a, dist_b and dist. *)
Vector_distance_by(dist_a, dist_b, dist) ==
    Math_sqrt(Math_max(Zero,
        NSub(NMul(dist_a, dist_a),
             Math_pow2(NDiv(NSub(NSub(NMul(dist_b, dist_b), NMul(dist_a, dist_a)),
                                 NMul(dist, dist)),
                            NMul(MinusTwo, dist))))))

Vector_distance_from_line(this, a, b) ==
    Vector_distance_by(Vector_mag(Vector_sub(this, a)), Vector_mag(Vector_sub(this, b)),
                       Vector_mag(Vector_sub(a, b)))

(* this.quaternion_rotate(q), q the value of from_axis_rotation or its Error. *)
Quaternion_rotate_or_throw(this, q) ==
    IF q = Error THEN Error ELSE Quaternion_quaternion_rotate(this, q)

Quaternion_rotate_axis(this, axis, angle) ==
    Quaternion_rotate_or_throw(this, Quaternion_from_axis_rotation(axis, angle))

Quaternion_rotate_x(this, a) == Quaternion_rotate_axis(this, Vector(One, Zero, Zero), a)

Quaternion_rotate_y(this, a) == Quaternion_rotate_axis(this, Vector(Zero, One, Zero), a)

Quaternion_rotate_z(this, a) == Quaternion_rotate_axis(this, Vector(Zero, Zero, One), a)

-----------------------------------------------------------------------------
(* The caller's objects and the calls.  heap holds the Vector, Quaternion and
   Array objects the caller can reach, in the order they were made; call is
   the last call: the method, the receiver's place in heap (0: a static
   method), the arguments (an object by its place in heap, a number or an
   angle by its value), whether it threw, and what it returned: an object by
   its place in heap (ret), a number or an angle by its value (val). *)

NoValue == "none"

NoCall == [op |-> "init", this |-> 0, args |-> <<>>, threw |-> FALSE, ret |-> 0, val |-> NoValue]

IsA(i, class) == i \in DOMAIN heap /\ heap[i].class = class

(* A method that writes its result into its receiver and returns it. *)
RetInPlace(h, this, val) == [heap |-> [h EXCEPT ![this] = val], ret |-> this]

(* A method's "return new Vector(...)", "return new Quaternion(...)" or
   "return M": the result is an object of its own, after the others. *)
Ret(h, this, val) == [heap |-> Append(h, val), ret |-> Len(h) + 1]

(* A call that returns an object, or throws. *)
ReturnsObject(op, this, args, r) ==
    IF r = Error
    THEN /\ heap' = heap
         /\ call' = [op |-> op, this |-> this, args |-> args, threw |-> TRUE,
                     ret |-> 0, val |-> NoValue]
    ELSE LET o == Ret(heap, IF this = 0 THEN args[1] ELSE this, r) IN
         /\ heap' = o.heap
         /\ call' = [op |-> op, this |-> this, args |-> args, threw |-> FALSE,
                     ret |-> o.ret, val |-> NoValue]

(* A call that returns a number or an angle. *)
ReturnsValue(op, this, args, r) ==
    /\ heap' = heap
    /\ call' = [op |-> op, this |-> this, args |-> args, threw |-> FALSE,
                ret |-> 0, val |-> r]

(* The model covers the calls whose square roots are exact: the squared
   magnitudes a call takes the root of are rational. *)
MagSq(v) == Vector_dot(v, v)

QMagSq(q) == NAdd(NAdd(NAdd(NMul(q.a, q.a), NMul(q.i, q.i)), NMul(q.j, q.j)), NMul(q.k, q.k))

ExactV(i) == IsA(i, "Vector") /\ IsRational(MagSq(heap[i]))

ExactQ(i) == IsA(i, "Quaternion") /\ IsRational(QMagSq(heap[i]))

RationalV(i) ==
    IsA(i, "Vector") /\ IsRational(heap[i].x) /\ IsRational(heap[i].y) /\ IsRational(heap[i].z)

(* The caller's constructors. *)
New_Vector(x, y, z) ==
    /\ heap' = Append(heap, Vector(x, y, z))
    /\ call' = [op |-> "new Vector", this |-> 0, args |-> <<x, y, z>>, threw |-> FALSE,
                ret |-> Len(heap) + 1, val |-> NoValue]

New_Quaternion(a, i, j, k) ==
    /\ heap' = Append(heap, Quaternion(a, i, j, k))
    /\ call' = [op |-> "new Quaternion", this |-> 0, args |-> <<a, i, j, k>>, threw |-> FALSE,
                ret |-> Len(heap) + 1, val |-> NoValue]

(* Vector's methods. *)
Call_Vector_add(i, j) ==
    /\ IsA(i, "Vector") /\ IsA(j, "Vector")
    /\ ReturnsObject("Vector.add", i, <<j>>, Vector_add(heap[i], heap[j]))

Call_Vector_neg(i) ==
    /\ IsA(i, "Vector")
    /\ ReturnsObject("Vector.neg", i, <<>>, Vector_neg(heap[i]))

Call_Vector_sub(i, j) ==
    /\ IsA(i, "Vector") /\ IsA(j, "Vector")
    /\ ReturnsObject("Vector.sub", i, <<j>>, Vector_sub(heap[i], heap[j]))

Call_Vector_mul_number(i, a) ==
    /\ IsA(i, "Vector")
    /\ ReturnsObject("Vector.mul", i, <<a>>,
                     Vector_mul(heap[i], [typeof |-> "number", val |-> a]))

Call_Vector_mul_Vector(i, j) ==
    /\ IsA(i, "Vector") /\ IsA(j, "Vector")
    /\ ReturnsObject("Vector.mul", i, <<j>>,
                     Vector_mul(heap[i], [typeof |-> "object", val |-> heap[j]]))

Call_Vector_mag(i) ==
    /\ ExactV(i)
    /\ ReturnsValue("Vector.mag", i, <<>>, Vector_mag(heap[i]))

Call_Vector_norm(i) ==
    /\ ExactV(i)
    /\ ReturnsObject("Vector.norm", i, <<>>, Vector_norm(heap[i]))

Call_Vector_cross(i, j) ==
    /\ IsA(i, "Vector") /\ IsA(j, "Vector")
    /\ ReturnsObject("Vector.cross", i, <<j>>, Vector_cross(heap[i], heap[j]))

Call_Vector_dot(i, j) ==
    /\ IsA(i, "Vector") /\ IsA(j, "Vector")
    /\ ReturnsValue("Vector.dot", i, <<j>>, Vector_dot(heap[i], heap[j]))

Call_Vector_quaternion_rotate(i, j) ==
    /\ IsA(i, "Vector") /\ ExactQ(j)
    /\ ReturnsObject("Vector.quaternion_rotate", i, <<j>>,
                     Vector_quaternion_rotate(heap[i], heap[j]))

Call_Vector_q_rotate(i, j) ==
    /\ IsA(i, "Vector") /\ ExactQ(j)
    /\ ReturnsObject("Vector.q_rotate", i, <<j>>, Vector_q_rotate(heap[i], heap[j]))

Call_Vector_transform(i, m) ==
    /\ IsA(i, "Vector") /\ IsA(m, "Array")
    /\ ReturnsObject("Vector.transform", i, <<m>>, Vector_transform(heap[i], heap[m]))

Call_Vector_rotate_axis(i, j, angle) ==
    /\ IsA(i, "Vector") /\ ExactV(j)
    /\ ReturnsObject("Vector.rotate_axis", i, <<j, angle>>,
                     Vector_rotate_axis(heap[i], heap[j], angle))

Call_Vector_rotate_x(i, angle) ==
    /\ IsA(i, "Vector")
    /\ ReturnsObject("Vector.rotate_x", i, <<angle>>, Vector_rotate_x(heap[i], angle))

Call_Vector_rotate_y(i, angle) ==
    /\ IsA(i, "Vector")
    /\ ReturnsObject("Vector.rotate_y", i, <<angle>>, Vector_rotate_y(heap[i], angle))

Call_Vector_rotate_z(i, angle) ==
    /\ IsA(i, "Vector")
    /\ ReturnsObject("Vector.rotate_z", i, <<angle>>, Vector_rotate_z(heap[i], angle))

Call_Vector_angle_between(i, j) ==
    /\ RationalV(i) /\ RationalV(j)
    /\ ReturnsValue("Vector.angle_between", i, <<j>>, Vector_angle_between(heap[i], heap[j]))

Call_Vector_project(i, j) ==
    /\ RationalV(i) /\ RationalV(j)
    /\ ReturnsObject("Vector.project", i, <<j>>, Vector_project(heap[i], heap[j]))

Call_Vector_planar_project(i, o, n) ==
    /\ RationalV(i) /\ RationalV(o) /\ RationalV(n)
    /\ ReturnsObject("Vector.planar_project", i, <<o, n>>,
                     Vector_planar_project(heap[i], heap[o], heap[n]))

Call_Vector_project_2d(i, o, n, y) ==
    /\ RationalV(i) /\ RationalV(o) /\ RationalV(n) /\ RationalV(y)
    /\ ReturnsObject("Vector.project_2d", i, <<o, n, y>>,
                     Vector_project_2d(heap[i], heap[o], heap[n], heap[y]))

Call_Vector_distance_from_line(i, a, b) ==
    /\ RationalV(i) /\ RationalV(a) /\ RationalV(b)
    /\ ReturnsValue("Vector.distance_from_line", i, <<a, b>>,
                    Vector_distance_from_line(heap[i], heap[a], heap[b]))

(* Quaternion's methods. *)
Call_Quaternion_add(i, j) ==
    /\ IsA(i, "Quaternion") /\ IsA(j, "Quaternion")
    /\ ReturnsObject("Quaternion.add", i, <<j>>, Quaternion_add(heap[i], heap[j]))

Call_Quaternion_sub(i, j) ==
    /\ IsA(i, "Quaternion") /\ IsA(j, "Quaternion")
    /\ ReturnsObject("Quaternion.sub", i, <<j>>, Quaternion_sub(heap[i], heap[j]))

Call_Quaternion_conjugate(i) ==
    /\ IsA(i, "Quaternion")
    /\ ReturnsObject("Quaternion.conjugate", i, <<>>, Quaternion_conjugate(heap[i]))

Call_Quaternion_mul(i, a) ==
    /\ IsA(i, "Quaternion")
    /\ ReturnsObject("Quaternion.mul", i, <<a>>, Quaternion_mul(heap[i], a))

Call_Quaternion_div(i, a) ==
    /\ IsA(i, "Quaternion")
    /\ ReturnsObject("Quaternion.div", i, <<a>>, Quaternion_div(heap[i], a))

Call_Quaternion_mag(i) ==
    /\ ExactQ(i)
    /\ ReturnsValue("Quaternion.mag", i, <<>>, Quaternion_mag(heap[i]))

Call_Quaternion_normalize(i) ==
    /\ ExactQ(i)
    /\ ReturnsObject("Quaternion.normalize", i, <<>>, Quaternion_normalize(heap[i]))

Call_Quaternion_q_rotate(i, j) ==
    /\ ExactQ(i) /\ ExactQ(j)
    /\ ReturnsObject("Quaternion.q_rotate", i, <<j>>, Quaternion_q_rotate(heap[i], heap[j]))

Call_Quaternion_quaternion_rotate(i, j) ==
    /\ ExactQ(i) /\ ExactQ(j)
    /\ ReturnsObject("Quaternion.quaternion_rotate", i, <<j>>,
                     Quaternion_quaternion_rotate(heap[i], heap[j]))

Call_Quaternion_q_mul(i, j) ==
    /\ IsA(i, "Quaternion") /\ IsA(j, "Quaternion")
    /\ ReturnsObject("Quaternion.q_mul", i, <<j>>, Quaternion_q_mul(heap[i], heap[j]))

Call_Quaternion_quaternion_multiply(i, j) ==
    /\ IsA(i, "Quaternion") /\ IsA(j, "Quaternion")
    /\ ReturnsObject("Quaternion.quaternion_multiply", i, <<j>>,
                     Quaternion_quaternion_multiply(heap[i], heap[j]))

Call_Quaternion_rotate_axis(i, j, angle) ==
    /\ ExactQ(i) /\ ExactV(j)
    /\ ReturnsObject("Quaternion.rotate_axis", i, <<j, angle>>,
                     Quaternion_rotate_axis(heap[i], heap[j], angle))

Call_Quaternion_rotate_x(i, angle) ==
    /\ ExactQ(i)
    /\ ReturnsObject("Quaternion.rotate_x", i, <<angle>>, Quaternion_rotate_x(heap[i], angle))

Call_Quaternion_rotate_y(i, angle) ==
    /\ ExactQ(i)
    /\ ReturnsObject("Quaternion.rotate_y", i, <<angle>>, Quaternion_rotate_y(heap[i], angle))

Call_Quaternion_rotate_z(i, angle) ==
    /\ ExactQ(i)
    /\ ReturnsObject("Quaternion.rotate_z", i, <<angle>>, Quaternion_rotate_z(heap[i], angle))

Call_Quaternion_get_rotation_matrix(i) ==
    /\ IsA(i, "Quaternion")
    /\ ReturnsObject("Quaternion.get_rotation_matrix", i, <<>>,
                     Quaternion_get_rotation_matrix(heap[i]))

Call_Quaternion_copy(i) ==
    /\ IsA(i, "Quaternion")
    /\ ReturnsObject("Quaternion.copy", i, <<>>, Quaternion_copy(heap[i]))

Call_Quaternion_from_axis_rotation(j, angle) ==
    /\ ExactV(j)
    /\ ReturnsObject("Quaternion.from_axis_rotation", 0, <<j, angle>>,
                     Quaternion_from_axis_rotation(heap[j], angle))

-----------------------------------------------------------------------------
(* The library as a caller uses it: objects are constructed and any method is
   called on any of them, each result one more object, while fewer than
   MaxHeap objects exist. *)

MaxHeap == 3

SampleVectors == {<<0, 0, 0>>, <<1, 2, 2>>}

SampleQuaternions == {<<0, 0, 0, 0>>, <<1, 1, 0, 0>>}

(* A caller's matrix literals: a 3x3 and a 3x4 (a 4th column, the translation). *)
SampleArrays ==
    {<<<<Zero, MinusOne, Zero>>, <<One, Zero, Zero>>, <<Zero, Zero, One>>>>,
     <<<<One, Zero, Zero, Two>>, <<Zero, One, Zero, Zero>>, <<Zero, Zero, One, MinusOne>>>>}

SampleNumbers == {Zero, Two}

SampleAngles == {Math_PI_2, Math_PI}

Room == Len(heap) < MaxHeap

Slots == IF Room THEN DOMAIN heap ELSE {}

New_Array(rows) ==
    /\ heap' = Append(heap, Array(rows))
    /\ call' = [op |-> "new Array", this |-> 0, args |-> <<>>, threw |-> FALSE,
                ret |-> Len(heap) + 1, val |-> NoValue]

Init ==
    /\ heap = <<>>
    /\ call = NoCall

Construct ==
    \/ \E s \in SampleVectors : Room /\ New_Vector(Lit(s[1]), Lit(s[2]), Lit(s[3]))
    \/ \E s \in SampleQuaternions :
           Room /\ New_Quaternion(Lit(s[1]), Lit(s[2]), Lit(s[3]), Lit(s[4]))
    \/ \E rows \in SampleArrays : Room /\ New_Array(rows)

VectorCall ==
    \/ \E i, j \in Slots : Call_Vector_add(i, j)
    \/ \E i \in Slots : Call_Vector_neg(i)
    \/ \E i, j \in Slots : Call_Vector_sub(i, j)
    \/ \E i \in Slots, a \in SampleNumbers : Call_Vector_mul_number(i, a)
    \/ \E i, j \in Slots : Call_Vector_mul_Vector(i, j)
    \/ \E i \in Slots : Call_Vector_mag(i)
    \/ \E i \in Slots : Call_Vector_norm(i)
    \/ \E i, j \in Slots : Call_Vector_cross(i, j)
    \/ \E i, j \in Slots : Call_Vector_dot(i, j)
    \/ \E i, j \in Slots : Call_Vector_quaternion_rotate(i, j)
    \/ \E i, j \in Slots : Call_Vector_q_rotate(i, j)
    \/ \E i, m \in Slots : Call_Vector_transform(i, m)
    \/ \E i, j \in Slots, t \in SampleAngles : Call_Vector_rotate_axis(i, j, t)
    \/ \E i \in Slots, t \in SampleAngles : Call_Vector_rotate_x(i, t)
    \/ \E i \in Slots, t \in SampleAngles : Call_Vector_rotate_y(i, t)
    \/ \E i \in Slots, t \in SampleAngles : Call_Vector_rotate_z(i, t)
    \/ \E i, j \in Slots : Call_Vector_angle_between(i, j)
    \/ \E i, j \in Slots : Call_Vector_project(i, j)
    \/ \E i, o, n \in Slots : Call_Vector_planar_project(i, o, n)
    \/ \E i, o, n, y \in Slots : Call_Vector_project_2d(i, o, n, y)
    \/ \E i, a, b \in Slots : Call_Vector_distance_from_line(i, a, b)

QuaternionCall ==
    \/ \E i, j \in Slots : Call_Quaternion_add(i, j)
    \/ \E i, j \in Slots : Call_Quaternion_sub(i, j)
    \/ \E i \in Slots : Call_Quaternion_conjugate(i)
    \/ \E i \in Slots, a \in SampleNumbers : Call_Quaternion_mul(i, a)
    \/ \E i \in Slots, a \in SampleNumbers : Call_Quaternion_div(i, a)
    \/ \E i \in Slots : Call_Quaternion_mag(i)
    \/ \E i \in Slots : Call_Quaternion_normalize(i)
    \/ \E i, j \in Slots : Call_Quaternion_q_rotate(i, j)
    \/ \E i, j \in Slots : Call_Quaternion_quaternion_rotate(i, j)
    \/ \E i, j \in Slots : Call_Quaternion_q_mul(i, j)
    \/ \E i, j \in Slots : Call_Quaternion_quaternion_multiply(i, j)
    \/ \E i, j \in Slots, t \in SampleAngles : Call_Quaternion_rotate_axis(i, j, t)
    \/ \E i \in Slots, t \in SampleAngles : Call_Quaternion_rotate_x(i, t)
    \/ \E i \in Slots, t \in SampleAngles : Call_Quaternion_rotate_y(i, t)
    \/ \E i \in Slots, t \in SampleAngles : Call_Quaternion_rotate_z(i, t)
    \/ \E i \in Slots : Call_Quaternion_get_rotation_matrix(i)
    \/ \E i \in Slots : Call_Quaternion_copy(i)
    \/ \E j \in Slots, t \in SampleAngles : Call_Quaternion_from_axis_rotation(j, t)

Next == Construct \/ VectorCall \/ QuaternionCall

Spec == Init /\ [][Next]_vars

-----------------------------------------------------------------------------
(* Single calls judged against their inputs.  The heap starts with the call's
   operands, objects a caller built from integer components inside a ball of
   radius MaxNorm (the sum of the absolute values), and one call is made. *)

MaxNorm == 2

MaxScalar == 2

Ints == (0 - MaxNorm)..MaxNorm

Ball3 == {s \in Ints \X Ints \X Ints : Abs(s[1]) + Abs(s[2]) + Abs(s[3]) <= MaxNorm}

Ball4 ==
    {s \in Ints \X Ints \X Ints \X Ints :
        Abs(s[1]) + Abs(s[2]) + Abs(s[3]) + Abs(s[4]) <= MaxNorm}

V3(s) == Vector(Lit(s[1]), Lit(s[2]), Lit(s[3]))

Q4(s) == Quaternion(Lit(s[1]), Lit(s[2]), Lit(s[3]), Lit(s[4]))

Scalars == {Rat(n, d) : n \in (0 - MaxScalar)..MaxScalar, d \in 1..MaxScalar}

Once == call = NoCall

(* Two quaternions, and one of Quaternion's calls on them. *)
InitQuat ==
    /\ heap \in {<<Q4(p), Q4(q)>> : p, q \in Ball4}
    /\ call = NoCall

NextQuat ==
    \/ \E a \in Scalars : Once /\ Call_Quaternion_div(1, a)
    \/ Once /\ Call_Quaternion_normalize(1)
    \/ Once /\ Call_Quaternion_quaternion_multiply(1, 2)
    \/ Once /\ Call_Quaternion_q_mul(1, 2)

SpecQuat == InitQuat /\ [][NextQuat]_vars

(* The operands and the result of the call made. *)
This == heap[call.this]

Arg(n) == heap[call.args[n]]

Result == heap[call.ret]

Returned(op) == call.op = op /\ ~call.threw

Threw(op) == call.op = op /\ call.threw

ZeroQuaternion == Q4(<<0, 0, 0, 0>>)

ZeroVector == V3(<<0, 0, 0>>)

(* C2: Quaternion.div(a) fails exactly when a == 0 and otherwise returns the
   componentwise quotient (each component times a gives back the receiver's);
   Quaternion.normalize() fails exactly when the quaternion is (0,0,0,0). *)
DivFailsExactlyOnZero ==
    /\ call.op = "Quaternion.div" =>
          /\ call.threw <=> (call.args[1] = Zero)
          /\ ~call.threw =>
                /\ NMul(Result.a, call.args[1]) = This.a
                /\ NMul(Result.i, call.args[1]) = This.i
                /\ NMul(Result.j, call.args[1]) = This.j
                /\ NMul(Result.k, call.args[1]) = This.k
    /\ call.op = "Quaternion.normalize" => (call.threw <=> (This = ZeroQuaternion))

NormalizeThrewOnZero == Threw("Quaternion.normalize") /\ This = ZeroQuaternion

(* The integer a component built by Lit holds. *)
IntOf(x) == IF x = Zero THEN 0 ELSE (CHOOSE t \in x : TRUE)[2]

Hamilton(a1, i1, j1, k1, a2, i2, j2, k2) ==
    Q4(<<a1 * a2 - i1 * i2 - j1 * j2 - k1 * k2,
         a1 * i2 + i1 * a2 + j1 * k2 - k1 * j2,
         a1 * j2 - i1 * k2 + j1 * a2 + k1 * i2,
         a1 * k2 + i1 * j2 - j1 * i2 + k1 * a2>>)

HamiltonOf(p, q) ==
    Hamilton(IntOf(p.a), IntOf(p.i), IntOf(p.j), IntOf(p.k),
             IntOf(q.a), IntOf(q.i), IntOf(q.j), IntOf(q.k))

IsMultiply == Returned("Quaternion.quaternion_multiply") \/ Returned("Quaternion.q_mul")

(* C9: quaternion_multiply and its alias q_mul return the Hamilton product
   this*q, component by component the standard formula; so (1,0,0,0) is an
   identity on both sides, i*j is k but j*i is -k, and the squared magnitude
   of the product is the product of the squared magnitudes. *)
MultiplyIsHamilton ==
    IsMultiply =>
        /\ Result = HamiltonOf(This, Arg(1))
        /\ This = Q4(<<1, 0, 0, 0>>) => Result = Arg(1)
        /\ Arg(1) = Q4(<<1, 0, 0, 0>>) => Result = This
        /\ (This = Q4(<<0, 1, 0, 0>>) /\ Arg(1) = Q4(<<0, 0, 1, 0>>))
              => Result = Q4(<<0, 0, 0, 1>>)
        /\ (This = Q4(<<0, 0, 1, 0>>) /\ Arg(1) = Q4(<<0, 1, 0, 0>>))
              => Result = Q4(<<0, 0, 0, -1>>)
        /\ QMagSq(Result) = NMul(QMagSq(This), QMagSq(Arg(1)))

JTimesI ==
    /\ IsMultiply
    /\ This = Q4(<<0, 0, 1, 0>>) /\ Arg(1) = Q4(<<0, 1, 0, 0>>)
    /\ Result = Q4(<<0, 0, 0, -1>>)

-----------------------------------------------------------------------------
(* Two vectors, and one of the calls that take a magnitude as a divisor. *)
InitVec ==
    /\ heap \in {<<V3(a), V3(b)>> : a, b \in Ball3}
    /\ call = NoCall

NextVec ==
    \/ Once /\ Call_Vector_norm(1)
    \/ Once /\ Call_Vector_angle_between(1, 2)
    \/ Once /\ Call_Vector_project(1, 2)

SpecVec == InitVec /\ [][NextVec]_vars

(* C3: on a zero-magnitude operand the Vector operations do not fail:
   norm() of the zero vector is the zero vector, a.angle_between(b) is
   exactly 0 when a or b is the zero vector, and a.project(b) is the zero
   vector when b, or a, is the zero vector. *)
ZeroMagnitudeSentinels ==
    /\ (call.op = "Vector.norm" /\ This = ZeroVector)
          => (~call.threw /\ Result = ZeroVector)
    /\ (call.op = "Vector.angle_between" /\ (This = ZeroVector \/ Arg(1) = ZeroVector))
          => (~call.threw /\ call.val = AngleZero)
    /\ (call.op = "Vector.project" /\ (This = ZeroVector \/ Arg(1) = ZeroVector))
          => (~call.threw /\ Result = ZeroVector)

ProjectedOnZero ==
    /\ Returned("Vector.project")
    /\ This # ZeroVector /\ Arg(1) = ZeroVector
    /\ Result = ZeroVector

-----------------------------------------------------------------------------
(* Rotations.  The angles are those whose half has a rational cosine and
   sine, (m*m - n*n) / (m*m + n*n) and 2*m*n / (m*m + n*n), and PI/2; they
   hold 0, PI and 2*PI, and negative angles. *)

MaxAngle == 2

Halves == {h \in ((0 - MaxAngle)..MaxAngle) \X ((0 - MaxAngle)..MaxAngle) : h # <<0, 0>>}

HalfAngle(m, n) == Angle(Rat(m * m - n * n, m * m + n * n), Rat(2 * m * n, m * m + n * n))

Angles == {HalfAngle(h[1], h[2]) : h \in Halves} \cup {Math_PI_2}

(* The vectors rotated: one of every direction with no negative component
   (a rotation is linear, what it does to -v is known by v). *)
Directions == {s \in Ball3 : s[1] >= 0 /\ s[2] >= 0 /\ s[3] >= 0 /\ s # <<0, 0, 0>>}

(* A vector with an axis or a quaternion: any quaternion a caller builds, and
   the unit quaternions normalize() returns. *)
InitRot ==
    /\ heap \in {<<V3(v), V3(x)>> : v \in Directions, x \in Ball3}
          \cup {<<V3(v), Q4(q)>> : v \in Directions, q \in Ball4}
          \cup {<<V3(v), Quaternion_normalize(Q4(q))>> :
                   v \in Directions, q \in Ball4 \ {<<0, 0, 0, 0>>}}
    /\ call = NoCall

NextRot ==
    \/ \E t \in Angles : Once /\ Call_Vector_rotate_axis(1, 2, t)
    \/ \E t \in Angles : Once /\ Call_Quaternion_from_axis_rotation(2, t)
    \/ Once /\ Call_Vector_quaternion_rotate(1, 2)
    \/ Once /\ Call_Quaternion_get_rotation_matrix(2)
    \/ call.op = "Quaternion.get_rotation_matrix" /\ Call_Vector_transform(1, call.ret)

SpecRot == InitRot /\ [][NextRot]_vars

(* C4: rotation preserves magnitude.  For every vector v, nonzero axis and
   angle, v.rotate_axis(axis, angle) has the magnitude of v; for every nonzero
   quaternion q, v.quaternion_rotate(q) has the squared length of v and the
   real part of the product q^ (0,v) conjugate(q^), q^ = q.normalize(), is 0. *)
RotationPreservesMagnitude ==
    /\ (call.op = "Vector.rotate_axis" /\ Arg(1) # ZeroVector) =>
          /\ ~call.threw
          /\ MagSq(Result) = MagSq(This)
          /\ Vector_mag(Result) = Vector_mag(This)
    /\ (call.op = "Vector.quaternion_rotate" /\ Arg(1) # ZeroQuaternion) =>
          /\ ~call.threw
          /\ MagSq(Result) = MagSq(This)
          /\ Sandwich(This, Quaternion_normalize(Arg(1))).a = Zero

RotatedAboutAxis ==
    /\ Returned("Vector.rotate_axis")
    /\ Arg(1) # ZeroVector
    /\ Result # This
    /\ ~IsRational(Result.x)
    /\ MagSq(Result) = MagSq(This)

HasNaN(v) == NaN \in {v.x, v.y, v.z}

(* C5, as the code has it: rotate_axis with the zero vector as axis never
   yields NaN.  The axis normalizes to the zero vector, the quaternion built
   is (cos(angle/2), 0, 0, 0), and its normalize() gives (1,0,0,0) or
   (-1,0,0,0): the result is the receiver, unchanged.  Only if cos(angle/2)
   is exactly 0 (the angle PI) is that quaternion (0,0,0,0), and the call
   fails with normalize()'s "Cannot divide by 0.". *)
ZeroAxisLeavesVector ==
    (call.op = "Vector.rotate_axis" /\ Arg(1) = ZeroVector) =>
        IF Math_cos_half(call.args[2]) = Zero
        THEN call.threw
        ELSE ~call.threw /\ ~HasNaN(Result) /\ Result = This

RotatedAboutZeroAxis ==
    /\ Returned("Vector.rotate_axis")
    /\ Arg(1) = ZeroVector /\ This # ZeroVector
    /\ call.args[2] = Math_PI_2
    /\ Result = This

(* C5 as claimed: rotate_axis with the zero vector as axis yields a NaN vector. *)
ZeroAxisYieldsNaN ==
    (call.op = "Vector.rotate_axis" /\ Arg(1) = ZeroVector) =>
        (~call.threw /\ HasNaN(Result))

(* C6, as the code has it: from_axis_rotation with the zero vector as axis
   takes the zero vector from Vector.norm(), and its final normalize() makes
   the quaternion (cos(angle/2), 0, 0, 0) a unit one, (1,0,0,0) or (-1,0,0,0),
   of magnitude 1; if cos(angle/2) is exactly 0 (the angle PI) the call fails
   with normalize()'s "Cannot divide by 0.". *)
ZeroAxisGivesIdentity ==
    (call.op = "Quaternion.from_axis_rotation" /\ Arg(1) = ZeroVector) =>
        /\ Vector_norm(Arg(1)) = ZeroVector
        /\ IF Math_cos_half(call.args[2]) = Zero
           THEN call.threw
           ELSE /\ ~call.threw
                /\ Result \in {Q4(<<1, 0, 0, 0>>), Q4(<<-1, 0, 0, 0>>)}
                /\ Quaternion_mag(Result) = One

QuaternionOfZeroAxis ==
    /\ Returned("Quaternion.from_axis_rotation")
    /\ Arg(1) = ZeroVector
    /\ call.args[2] = Math_PI_2
    /\ Result = Q4(<<1, 0, 0, 0>>)

(* C6 as claimed: from_axis_rotation with the zero vector as axis does not
   fail and returns a quaternion whose magnitude is not 1. *)
ZeroAxisGivesNonUnit ==
    (call.op = "Quaternion.from_axis_rotation" /\ Arg(1) = ZeroVector) =>
        (~call.threw /\ Quaternion_mag(Result) # One)

(* C7: for a unit quaternion q and a vector v, v.transform(M) with
   M = q.get_rotation_matrix() equals v.quaternion_rotate(q) component for
   component; M's rows have no 4th column, so nothing is translated. *)
MatrixRotatesAsQuaternion ==
    (Returned("Vector.transform") /\ Arg(1) = Quaternion_get_rotation_matrix(heap[2])
        /\ QMagSq(heap[2]) = One) =>
        /\ \A r \in 1..3 : Len(Arg(1).rows[r]) = 3
        /\ Result = Vector_quaternion_rotate(This, heap[2])

TransformedByMatrix ==
    /\ Returned("Vector.transform")
    /\ Arg(1) = Quaternion_get_rotation_matrix(heap[2])
    /\ QMagSq(heap[2]) = One /\ ~IsRational(heap[2].a)
    /\ Result # This
    /\ Result = Vector_quaternion_rotate(This, heap[2])

-----------------------------------------------------------------------------
(* A point and the two points of a line, and distance_from_line.  The point
   has no negative component; the line's points lie on every side of it. *)
InitLine ==
    /\ heap \in {<<V3(p), V3(a), V3(b)>> : p \in Directions \cup {<<0, 0, 0>>}, a, b \in Ball3}
    /\ call = NoCall

NextLine == Once /\ Call_Vector_distance_from_line(1, 2, 3)

SpecLine == InitLine /\ [][NextLine]_vars

(* C8: for a point p and distinct points a, b, p.distance_from_line(a, b) is
   the perpendicular distance from p to the line through a and b: its square
   times |b-a|^2 is |(p-a) x (b-a)|^2, it is a number, not NaN and not
   negative, and it is the same with a and b swapped. *)
DistanceIsPerpendicular ==
    (call.op = "Vector.distance_from_line" /\ Arg(1) # Arg(2)) =>
        /\ ~call.threw
        /\ IsFinite(call.val)
        /\ NSign(call.val) >= 0
        /\ NMul(NMul(call.val, call.val), MagSq(Vector_sub(Arg(2), Arg(1))))
              = MagSq(Vector_cross(Vector_sub(This, Arg(1)), Vector_sub(Arg(2), Arg(1))))
        /\ call.val = Vector_distance_from_line(This, Arg(2), Arg(1))

DistanceOffTheLine ==
    /\ call.op = "Vector.distance_from_line" /\ ~call.threw
    /\ This = V3(<<0, 0, 1>>) /\ Arg(1) = V3(<<0, 0, 0>>) /\ Arg(2) = V3(<<1, 0, 0>>)
    /\ call.val = One

-----------------------------------------------------------------------------
(* Two quaternions p, q and a vector v: p.quaternion_rotate(q), and then v
   rotated by the quaternion it returned. *)
(* Two independent vectors and a third off the axes: a rotation is known by
   what it does to them. *)
Probes == {<<1, 0, 0>>, <<0, 1, 0>>, <<1, 2, 2>>}

InitCompose ==
    /\ heap \in {<<Q4(p), Q4(q), V3(v)>> : p, q \in Ball4, v \in Probes}
    /\ call = NoCall

NextCompose ==
    \/ Once /\ Call_Quaternion_quaternion_rotate(1, 2)
    \/ Returned("Quaternion.quaternion_rotate") /\ Call_Vector_quaternion_rotate(3, call.ret)

SpecCompose == InitCompose /\ [][NextCompose]_vars

(* C10: p.quaternion_rotate(q) composes the rotations in the order they are
   applied: for nonzero p and q, v rotated by it is v rotated by p and then by
   q; the composed quaternion has magnitude 1; and the call fails if p or q is
   the zero quaternion (and only then). *)
RotateComposesInOrder ==
    /\ call.op = "Quaternion.quaternion_rotate" =>
          /\ call.threw <=> (This = ZeroQuaternion \/ Arg(1) = ZeroQuaternion)
          /\ ~call.threw => Quaternion_mag(Result) = One
    /\ (call.op = "Vector.quaternion_rotate"
           /\ Arg(1) = Quaternion_quaternion_rotate(heap[1], heap[2])) =>
          /\ ~call.threw
          /\ Result = Vector_quaternion_rotate(Vector_quaternion_rotate(This, heap[1]), heap[2])

RotatedByComposed ==
    /\ Returned("Vector.quaternion_rotate")
    /\ Arg(1) = Quaternion_quaternion_rotate(heap[1], heap[2])
    /\ heap[1] = Q4(<<1, 1, 0, 0>>) /\ heap[2] = Q4(<<1, 0, 1, 0>>)
    /\ Result = Vector_quaternion_rotate(Vector_quaternion_rotate(This, heap[1]), heap[2])
    /\ Result # Vector_quaternion_rotate(Vector_quaternion_rotate(This, heap[2]), heap[1])

-----------------------------------------------------------------------------
(* C1: no call changes an object that exists, its receiver and arguments
   among them, whether it returns or throws; and an object a call returns is
   a new one, none of those that existed. *)
NoMutationFreshResults ==
    [][/\ \A n \in DOMAIN heap : n \in DOMAIN heap' /\ heap'[n] = heap[n]
       /\ call'.ret # 0 => (call'.ret \notin DOMAIN heap /\ call'.ret \in DOMAIN heap')]_vars

ScaledIntoNewVector ==
    /\ Returned("Vector.mul")
    /\ call.ret # call.this
    /\ This = V3(<<1, 2, 2>>)
    /\ Result = V3(<<2, 4, 4>>)

=============================================================================
